---- MODULE Spec2Model ----
(***************************************************************************)
(* State-machine model of the scripting layer of hoomd-blue found in       *)
(*   src/hoomd/md/force.py        (_force, constant, active,               *)
(*                                 const_external_field_dipole)            *)
(*   src/hoomd/tune/custom_tuner.py (_TunerProperty, CustomTuner,          *)
(*                                 _InternalCustomTuner)                   *)
(* The native objects the layer drives (System, the force computes, the    *)
(* PythonTuner) are modelled by what the calls made on them do.            *)
(***************************************************************************)
EXTENDS Integers, Sequences, FiniteSets, TLC

VARIABLES
    exec_conf,    \* hoomd.context.exec_conf: "none" before hoomd.init, then
                  \* "cpu" or "gpu" (isCUDAEnabled)
    cur_id,       \* _force.cur_id
    forces,       \* hoomd.context.current.forces, a list of force objects
    system,       \* hoomd.context.current.system: its list of (name, compute)
    cpp,          \* the native compute objects, indexed by their identity
    last,         \* the last script-level call: what it was, how it ended,
                  \* and the native calls it made, in order
    timestep,     \* the integrator's current timestep
    tuners        \* the CustomTuner / _InternalCustomTuner objects

vars == <<exec_conf, cur_id, forces, system, cpp, last, timestep, tuners>>

forceVars == <<exec_conf, cur_id, forces, system, cpp>>
stepVars == <<timestep>>

-----------------------------------------------------------------------------
(* Bounds and input sets *)

\* how many force objects a script creates
MaxForces == 2
\* how many active forces the stepping specification creates
MaxEngines == 1
\* how many integration steps are run
MaxSteps == 3
\* how many tuner objects a script creates
MaxTuners == 2

\* Python's None, as the value of cpp_force
None == 0

\* force components handed to constant() and set_force()
ForceVecs == { <<1, 0, 0>>, <<0, 2, -1>> }
\* group arguments: no group, or a group object
Groups == { "None", "groupA" }
\* iteration counts handed to benchmark()
BenchN == { 100 }

\* an element of f_lst: a tuple or a list, of some items
Tup(items) == [type |-> "tuple", items |-> items]
Lst(items) == [type |-> "list", items |-> items]
\* f_lst arguments handed to active(): well-formed lists of one 3-tuple, a
\* list holding a list, a list holding a 2-tuple, a zero vector, and None
F100 == [isNone |-> FALSE, elems |-> << Tup(<<1, 0, 0>>) >>]
F020 == [isNone |-> FALSE, elems |-> << Tup(<<0, 2, 0>>) >>]
FListsGood == { F100, F020 }
FListsBad == { [isNone |-> FALSE, elems |-> << Lst(<<1, 0, 0>>) >>],
               [isNone |-> FALSE, elems |-> << Tup(<<1, 0>>) >>] }
FListsOdd == { [isNone |-> FALSE, elems |-> << Tup(<<0, 0, 0>>) >>],
               [isNone |-> TRUE, elems |-> << >>] }
FLists == FListsGood \cup FListsBad \cup FListsOdd
\* group arguments handed to active()
ActiveGroups == { "groupA", "groupEmpty" }
\* seeds handed to active()
Seeds == { 7 }
\* rotational diffusion constants handed to active()
RotationDiffs == { -1, 0, 1 }
\* constraint arguments handed to active(): none, an
\* update.constraint_ellipsoid, an object of another constraint class
Constraints == { "None", "ellipsoid", "sphere" }
\* the four directions of the plane a unit orientation takes in the model,
\* as quarter turns from +x
Dirs == { 0, 1, 2, 3 }
\* an orientation that is not a number (a zero vector normalised)
NaN == -1
\* unit-variance random draws, as whole numbers
Gammas == { -1, 0, 1 }

-----------------------------------------------------------------------------
(* The native System: addCompute / removeCompute *)

Call(fn, obj, args) == [fn |-> fn, obj |-> obj, args |-> args]

force_name_of(id) == <<"force", id>>

addCompute(sys, compute, name) == Append(sys, [name |-> name, compute |-> compute])

removeCompute(sys, name) == SelectSeq(sys, LAMBDA e : e.name # name)

\* how many computes are registered under a name
Registered(sys, name) == Cardinality({ k \in 1..Len(sys) : sys[k].name = name })

\* the compute objects registered under a name
ComputesOf(sys, name) == { sys[k].compute : k \in { j \in 1..Len(sys) : sys[j].name = name } }

-----------------------------------------------------------------------------
(* _force *)

\* hoomd.init.is_initialized()
is_initialized == exec_conf # "none"

\* _force.__init__ after the initialization check: the new force object of
\* class kind.  attrs holds the attributes the subclasses store
\* (metadata_fields starts as the empty list of hoomd.meta._metadata).
force_init(kind, name, id) ==
    [ kind |-> kind,
      name |-> IF name = "None" THEN "" ELSE "_" \o name,
      cpp_force |-> None,
      force_name |-> force_name_of(id),
      enabled |-> TRUE,
      log |-> TRUE,
      attrs |-> [ metadata_fields |-> << >> ] ]

\* check_initialization with the test of cpp_force left out
check_initialization_never_raises(f) == FALSE

\* check_initialization: TRUE when it raises
check_initialization_raises(f) == f.cpp_force = None

\* disable() without the early return for a force that is already disabled
disable_force_no_return(f, log) == [f EXCEPT !.enabled = FALSE, !.log = log]

\* disable(): what becomes of the force object
disable_force(f, log) ==
    IF ~f.enabled THEN f
    ELSE [f EXCEPT !.enabled = FALSE, !.log = log]

\* disable() with the test of log inverted
disable_calls_inverted(f, log) ==
    IF ~f.enabled THEN << >>
    ELSE IF log THEN << Call("removeCompute", "system", <<f.force_name>>) >>
    ELSE << >>

\* disable(): the native calls it makes
disable_calls(f, log) ==
    IF ~f.enabled THEN << >>
    ELSE IF ~log THEN << Call("removeCompute", "system", <<f.force_name>>) >>
    ELSE << >>

\* enable() that forgets to set log
enable_force_keeps_log(f) ==
    IF f.enabled THEN f
    ELSE [f EXCEPT !.enabled = TRUE]

\* enable(): what becomes of the force object
enable_force(f) ==
    IF f.enabled THEN f
    ELSE [f EXCEPT !.enabled = TRUE, !.log = TRUE]

\* enable() that adds the compute whether or not it was removed
enable_calls_always_add(f) ==
    IF f.enabled THEN << >>
    ELSE << Call("addCompute", "system", <<f.cpp_force, f.force_name>>) >>

\* enable(): the native calls it makes
enable_calls(f) ==
    IF f.enabled THEN << >>
    ELSE IF ~f.log THEN << Call("addCompute", "system", <<f.cpp_force, f.force_name>>) >>
    ELSE << >>

\* the system after a sequence of native calls made on it
RECURSIVE ApplyCalls(_, _)
ApplyCalls(sys, calls) ==
    IF calls = << >> THEN sys
    ELSE LET c == Head(calls)
             s == IF c.fn = "addCompute" THEN addCompute(sys, c.args[1], c.args[2])
                  ELSE IF c.fn = "removeCompute" THEN removeCompute(sys, c.args[1])
                  ELSE sys
         IN  ApplyCalls(s, Tail(calls))

-----------------------------------------------------------------------------
(* constant *)

\* group.cpp_group, and the group of all particles
cpp_group(group) == <<"cpp_group", group>>

\* the call constant.__init__ makes to create the native object
constant_cpp(fx, fy, fz, group) ==
    IF group # "None"
    THEN Call("ConstForceCompute", "_hoomd", <<cpp_group(group), fx, fy, fz>>)
    ELSE Call("ConstForceCompute", "_hoomd", <<cpp_group("group_all"), fx, fy, fz>>)

\* the metadata constant.__init__ stores
constant_attrs(fx, fy, fz, group) ==
    IF group # "None"
    THEN [ metadata_fields |-> <<"fx", "fy", "fz", "group">>,
           fx |-> fx, fy |-> fy, fz |-> fz, group |-> group ]
    ELSE [ metadata_fields |-> <<"fx", "fy", "fz">>,
           fx |-> fx, fy |-> fy, fz |-> fz ]

\* set_force(): the native calls it makes
set_force_calls(f, fx, fy, fz, group) ==
    IF group # "None"
    THEN << Call("setGroupForce", "cpp_force", <<f.cpp_force, cpp_group(group), fx, fy, fz>>) >>
    ELSE << Call("setForce", "cpp_force", <<f.cpp_force, fx, fy, fz>>) >>

\* set_force() that forgets to store fz
set_force_force_drops_fz(f, fx, fy, fz, group) ==
    [f EXCEPT !.attrs = [@ EXCEPT !.fx = fx, !.fy = fy]]

\* set_force(): what becomes of the force object
set_force_force(f, fx, fy, fz, group) ==
    [f EXCEPT !.attrs = [@ EXCEPT !.fx = fx, !.fy = fy, !.fz = fz]]

-----------------------------------------------------------------------------
(* active *)

\* the constraint objects: their class and their attributes
ConstraintObj(c) ==
    IF c = "ellipsoid"
    THEN [ class_name |-> "constraint_ellipsoid", P |-> <<0, 0, 0>>,
           rx |-> 3, ry |-> 4, rz |-> 5 ]
    ELSE [ class_name |-> "constraint_sphere", P |-> <<0, 0, 0>>,
           rx |-> 3, ry |-> 3, rz |-> 3 ]

\* the input check of f_lst with the test of the element's type left out
f_lst_raises_len_only(f_lst) ==
    /\ ~f_lst.isNone
    /\ \E k \in 1..Len(f_lst.elems) : Len(f_lst.elems[k].items) # 3

\* the input check of f_lst: TRUE when it raises
f_lst_raises(f_lst) ==
    /\ ~f_lst.isNone
    /\ \E k \in 1..Len(f_lst.elems) :
          \/ f_lst.elems[k].type # "tuple"
          \/ Len(f_lst.elems[k].items) # 3

\* the constraint check: TRUE when it raises.  `is` on the two class names
\* compares interned strings, so it is equality of the names.
constraint_raises(constraint) ==
    /\ constraint # "None"
    /\ ~(ConstraintObj(constraint).class_name = "constraint_ellipsoid")

\* P, rx, ry, rz as active.__init__ assigns them
constraint_params(constraint) ==
    IF constraint # "None"
    THEN [ P |-> ConstraintObj(constraint).P, rx |-> ConstraintObj(constraint).rx,
           ry |-> ConstraintObj(constraint).ry, rz |-> ConstraintObj(constraint).rz ]
    ELSE [ P |-> <<0, 0, 0>>, rx |-> 0, ry |-> 0, rz |-> 0 ]

\* the class of the native object: ActiveForceCompute unless CUDA is enabled
active_cpp_class == IF exec_conf # "gpu" THEN "ActiveForceCompute"
                    ELSE "ActiveForceComputeGPU"

\* active.__init__ handing the native constructor the default
\* orientation_link instead of the argument
active_cpp_args_default_link(seed, f_lst, group, orientation_link, rotation_diff, constraint) ==
    [ type |-> active_cpp_class,
      group |-> cpp_group(group),
      seed |-> seed,
      f_lst |-> f_lst,
      orientation_link |-> TRUE,
      rotation_diff |-> rotation_diff,
      P |-> constraint_params(constraint).P,
      rx |-> constraint_params(constraint).rx,
      ry |-> constraint_params(constraint).ry,
      rz |-> constraint_params(constraint).rz ]

\* the arguments active.__init__ hands to the native constructor
active_cpp_args(seed, f_lst, group, orientation_link, rotation_diff, constraint) ==
    [ type |-> active_cpp_class,
      group |-> cpp_group(group),
      seed |-> seed,
      f_lst |-> f_lst,
      orientation_link |-> orientation_link,
      rotation_diff |-> rotation_diff,
      P |-> constraint_params(constraint).P,
      rx |-> constraint_params(constraint).rx,
      ry |-> constraint_params(constraint).ry,
      rz |-> constraint_params(constraint).rz ]

\* the metadata active.__init__ stores (under the name metdata_fields)
active_attrs(seed, group, orientation_link, rotation_diff, constraint) ==
    [ metadata_fields |-> << >>,
      metdata_fields |-> <<"group", "seed", "orientation_link", "rotation_diff",
                           "constraint">>,
      group |-> group, seed |-> seed, orientation_link |-> orientation_link,
      rotation_diff |-> rotation_diff, constraint |-> constraint ]

(* The native ActiveForceCompute, from its specification *)

\* number of members of a group
GroupSize(g) == IF g = cpp_group("groupEmpty") THEN 0 ELSE 1

Abs(x) == IF x < 0 THEN -x ELSE x

\* the direction and the magnitude of an initial force vector
DirOf(v) == IF v[1] > 0 THEN 0 ELSE IF v[2] > 0 THEN 1
            ELSE IF v[1] < 0 THEN 2 ELSE 3
MagOf(v) == Abs(v[1]) + Abs(v[2]) + Abs(v[3])

\* the vector of a direction and a magnitude
Unit(d) == IF d = 0 THEN <<1, 0, 0>> ELSE IF d = 1 THEN <<0, 1, 0>>
           ELSE IF d = 2 THEN <<-1, 0, 0>> ELSE <<0, -1, 0>>
VecOf(d, m) == <<m * Unit(d)[1], m * Unit(d)[2], m * Unit(d)[3]>>

\* the native constructor: TRUE when it raises (a negative D_r, an empty
\* group, an initial vector of zero magnitude, no list at all)
ActiveForceCompute_raises(args) ==
    \/ args.rotation_diff < 0
    \/ GroupSize(args.group) = 0
    \/ args.f_lst.isNone
    \/ \E k \in 1..Len(args.f_lst.elems) : MagOf(args.f_lst.elems[k].items) = 0

\* the native object: its arguments and the per-particle state it keeps
ActiveForceCompute(args) ==
    [ type |-> args.type, group |-> args.group, seed |-> args.seed,
      orientation_link |-> args.orientation_link,
      rotation_diff |-> args.rotation_diff,
      constrained |-> (args.rx # 0 \/ args.ry # 0 \/ args.rz # 0),
      f_lst |-> [k \in 1..Len(args.f_lst.elems) |-> args.f_lst.elems[k].items],
      mag |-> [k \in 1..Len(args.f_lst.elems) |-> MagOf(args.f_lst.elems[k].items)],
      dir |-> [k \in 1..Len(args.f_lst.elems) |-> DirOf(args.f_lst.elems[k].items)] ]

-----------------------------------------------------------------------------
(* const_external_field_dipole *)

\* field arguments handed to const_external_field_dipole()
Fields == { <<0, 1, 2>> }

\* the metadata const_external_field_dipole.__init__ stores
dipole_attrs(field_x, field_y, field_z) ==
    [ metadata_fields |-> << >>,
      metdata_fields |-> <<"field_x", "field_y", "field_z">>,
      field_x |-> field_x, field_y |-> field_y, field_z |-> field_z ]

\* the whole-number stand-in of sqrt(2 D_r dt): zero exactly when D_r is
Scale(rotation_diff) == rotation_diff

\* a direction turned by k quarter turns
Rotate(d, k) == IF d = NaN THEN NaN ELSE (d + k) % Cardinality(Dirs)

\* a direction projected on the tangent plane of the surface whose normal
\* is n, then normalised: a direction along the normal has no tangent part
Project(d, n) ==
    IF d = NaN \/ d = n \/ d = Rotate(n, 2) THEN NaN ELSE d

\* the per-particle update of one step: the new direction of a particle whose
\* rigid-body orientation is b, at a position where the surface normal is n,
\* with the random draw gamma
active_update(o, d, b, n, gamma) ==
    IF o.orientation_link THEN b
    ELSE LET turned == Rotate(d, Scale(o.rotation_diff) * gamma)
         IN  IF o.constrained THEN Project(turned, n) ELSE turned

\* whether a native object is an active force compute
IsActive(o) == o.type \in { "ActiveForceCompute", "ActiveForceComputeGPU" }

\* the active force vector of particle k of a native active compute
ActiveVec(o, k) == IF o.dir[k] = NaN THEN <<NaN, NaN, NaN>>
                   ELSE VecOf(o.dir[k], o.mag[k])

\* the native objects after one step
step_all(heap, sys, b, n, gam) ==
    [c \in 1..Len(heap) |->
        IF IsActive(heap[c]) /\ \E k \in 1..Len(sys) : sys[k].compute = c
        THEN [heap[c] EXCEPT !.dir = [k \in DOMAIN heap[c].dir |->
                  active_update(heap[c], heap[c].dir[k], b, n, gam[c])]]
        ELSE heap[c]]

-----------------------------------------------------------------------------
(* custom_tuner: _TunerProperty, CustomTuner, _InternalCustomTuner *)

\* Python values a script may assign to .tuner: two hoomd.custom.Action
\* objects (one of a subclass), and three values that are no Action
PyValue(cls, id) == [class |-> cls, id |-> id]
ActionValues == { PyValue("Action", 1), PyValue("MyAction", 2) }
OtherValues == { PyValue("NoneType", 0), PyValue("function", 3), PyValue("str", 4) }
PyValues == ActionValues \cup OtherValues

\* the classes a class derives from, itself included
Mro(cls) == IF cls = "MyAction" THEN { "MyAction", "Action", "object" }
            ELSE { cls, "object" }

\* isinstance(value, cls)
isinstance(value, cls) == cls \in Mro(value.class)

\* the tuner property: its getter
tuner_get(t) == t.action

\* the tuner setter with the isinstance test left out
tuner_set_never_raises(value) == FALSE

\* the tuner property: whether its setter raises ValueError
tuner_set_raises(value) == ~isinstance(value, "Action")

\* the tuner property: the object after its setter returned
tuner_set(t, value) == [t EXCEPT !.action = value]

\* _attach: the native PythonTuner is built around the action stored now
tuner_attach(t) == [t EXCEPT !.cpp_obj = << [class |-> t.cpp_class_name,
                                             action |-> t.action] >>]

Init ==
    /\ exec_conf = "none"
    /\ cur_id = 0
    /\ forces = << >>
    /\ system = << >>
    /\ cpp = << >>
    /\ last = [op |-> "none", target |-> 0, result |-> "ok", native |-> << >>,
               arg |-> << >>]
    /\ timestep = 0
    /\ tuners = << >>

\* hoomd.init: the simulation context exists from here on
hoomd_init(devices) ==
    /\ ~is_initialized
    /\ exec_conf' \in devices
    /\ last' = [op |-> "init", target |-> 0, result |-> "ok", native |-> << >>,
                arg |-> << >>]
    /\ UNCHANGED <<cur_id, forces, system, cpp, stepVars, tuners>>

HoomdInit == hoomd_init({ "cpu" })

\* a script-level call that raised before it changed anything
Raised(op, target, arg, error) ==
    /\ last' = [op |-> op, target |-> target, result |-> error, native |-> << >>,
                arg |-> arg]
    /\ UNCHANGED <<forceVars, stepVars, tuners>>

\* force.disable(log)
Disable ==
    \E i \in 1..Len(forces), log \in BOOLEAN :
        LET f == forces[i] IN
        IF check_initialization_raises(f)
        THEN Raised("disable", i, log, "RuntimeError")
        ELSE /\ forces' = [forces EXCEPT ![i] = disable_force(f, log)]
             /\ system' = ApplyCalls(system, disable_calls(f, log))
             /\ last' = [op |-> "disable", target |-> i,
                         result |-> IF f.enabled THEN "ok" ELSE "ignored",
                         native |-> disable_calls(f, log), arg |-> log]
             /\ UNCHANGED <<exec_conf, cur_id, cpp, stepVars, tuners>>

\* force.enable()
Enable ==
    \E i \in 1..Len(forces) :
        LET f == forces[i] IN
        IF check_initialization_raises(f)
        THEN Raised("enable", i, << >>, "RuntimeError")
        ELSE /\ forces' = [forces EXCEPT ![i] = enable_force(f)]
             /\ system' = ApplyCalls(system, enable_calls(f))
             /\ last' = [op |-> "enable", target |-> i,
                         result |-> IF f.enabled THEN "ignored" ELSE "ok",
                         native |-> enable_calls(f), arg |-> << >>]
             /\ UNCHANGED <<exec_conf, cur_id, cpp, stepVars, tuners>>

\* force.benchmark(n)
Benchmark ==
    \E i \in 1..Len(forces), n \in BenchN :
        LET f == forces[i] IN
        IF check_initialization_raises(f)
        THEN Raised("benchmark", i, n, "RuntimeError")
        ELSE /\ last' = [op |-> "benchmark", target |-> i, result |-> "ok",
                         native |-> << Call("benchmark", "cpp_force", <<f.cpp_force, n>>) >>,
                         arg |-> n]
             /\ UNCHANGED <<forceVars, stepVars, tuners>>

\* _force(name): the base class, which creates no native object
ConstructBase ==
    \E name \in { "f" } :
        /\ cur_id < MaxForces
        /\ IF ~is_initialized
           THEN Raised("_force", 0, name, "RuntimeError")
           ELSE /\ cur_id' = cur_id + 1
                /\ forces' = Append(forces, force_init("_force", name, cur_id))
                /\ last' = [op |-> "_force", target |-> Len(forces) + 1,
                            result |-> "ok", native |-> << >>, arg |-> name]
                /\ UNCHANGED <<exec_conf, system, cpp, stepVars, tuners>>

\* force.constant(fx, fy, fz, group).  accepted: whether the native
\* constructor takes the arguments (it raises on one it cannot convert).
ConstructConstant ==
    \E v \in ForceVecs, group \in Groups, accepted \in BOOLEAN :
        LET arg == [f |-> v, group |-> group] IN
        /\ cur_id < MaxForces
        /\ IF ~is_initialized
           THEN Raised("constant", 0, arg, "RuntimeError")
           ELSE LET f0 == force_init("constant", "None", cur_id)
                    me == Len(forces) + 1
                    obj == Len(cpp) + 1
                    add == << Call("addCompute", "system", <<obj, f0.force_name>>) >>
                IN  /\ cur_id' = cur_id + 1
                    /\ IF ~accepted
                       THEN /\ forces' = Append(forces, f0)
                            /\ last' = [op |-> "constant", target |-> me,
                                        result |-> "TypeError", native |-> << >>,
                                        arg |-> arg]
                            /\ UNCHANGED <<system, cpp>>
                       ELSE /\ cpp' = Append(cpp, [type |-> "ConstForceCompute"])
                            /\ forces' = Append(forces,
                                  [f0 EXCEPT !.cpp_force = obj,
                                             !.attrs = constant_attrs(v[1], v[2], v[3], group)])
                            /\ system' = ApplyCalls(system, add)
                            /\ last' = [op |-> "constant", target |-> me,
                                        result |-> "ok",
                                        native |-> <<constant_cpp(v[1], v[2], v[3], group)>> \o add,
                                        arg |-> arg]
                    /\ UNCHANGED <<exec_conf, stepVars, tuners>>

\* force.active(seed, f_lst, group, orientation_link, rotation_diff,
\* constraint), with the arguments drawn from the given sets
active_init(limit, FL, GR, OL, RD, CS) ==
    \E seed \in Seeds, f_lst \in FL, group \in GR, orientation_link \in OL,
       rotation_diff \in RD, constraint \in CS :
        LET arg == [seed |-> seed, f_lst |-> f_lst, group |-> group,
                    orientation_link |-> orientation_link,
                    rotation_diff |-> rotation_diff, constraint |-> constraint] IN
        /\ cur_id < limit
        /\ IF ~is_initialized
           THEN Raised("active", 0, arg, "RuntimeError")
           ELSE LET f0 == force_init("active", "None", cur_id)
                    me == Len(forces) + 1
                    obj == Len(cpp) + 1
                    args == active_cpp_args(seed, f_lst, group, orientation_link,
                                            rotation_diff, constraint)
                    add == << Call("addCompute", "system", <<obj, f0.force_name>>) >>
                IN  /\ cur_id' = cur_id + 1
                    /\ IF f_lst_raises(f_lst) \/ constraint_raises(constraint)
                       THEN /\ forces' = Append(forces, f0)
                            /\ last' = [op |-> "active", target |-> me,
                                        result |-> "RuntimeError", native |-> << >>,
                                        arg |-> arg]
                            /\ UNCHANGED <<system, cpp>>
                       ELSE IF ActiveForceCompute_raises(args)
                       THEN /\ forces' = Append(forces, f0)
                            /\ last' = [op |-> "active", target |-> me,
                                        result |-> "NativeError", native |-> << >>,
                                        arg |-> arg]
                            /\ UNCHANGED <<system, cpp>>
                       ELSE /\ cpp' = Append(cpp, ActiveForceCompute(args))
                            /\ forces' = Append(forces,
                                  [f0 EXCEPT !.cpp_force = obj,
                                             !.attrs = active_attrs(seed, group,
                                                 orientation_link, rotation_diff,
                                                 constraint)])
                            /\ system' = ApplyCalls(system, add)
                            /\ last' = [op |-> "active", target |-> me,
                                        result |-> "ok", native |-> add, arg |-> arg]
                    /\ UNCHANGED <<exec_conf, stepVars, tuners>>

ConstructActive ==
    active_init(MaxForces, FLists \ {F020}, ActiveGroups, {FALSE}, {-1, 0}, {"None", "sphere"})

\* force.const_external_field_dipole(field_x, field_y, field_z, p)
ConstructDipole ==
    \E v \in Fields, p \in { 1 } :
        LET arg == [field |-> v, p |-> p] IN
        /\ cur_id < MaxForces
        /\ IF ~is_initialized
           THEN Raised("const_external_field_dipole", 0, arg, "RuntimeError")
           ELSE LET f0 == force_init("const_external_field_dipole", "None", cur_id)
                    obj == Len(cpp) + 1
                    add == << Call("addCompute", "system", <<obj, f0.force_name>>) >>
                IN  /\ cur_id' = cur_id + 1
                    /\ cpp' = Append(cpp, [type |-> "ConstExternalFieldDipoleForceCompute"])
                    /\ system' = ApplyCalls(system, add)
                    /\ forces' = Append(forces,
                          [f0 EXCEPT !.cpp_force = obj,
                                     !.attrs = dipole_attrs(v[1], v[2], v[3])])
                    /\ last' = [op |-> "const_external_field_dipole",
                                target |-> Len(forces) + 1, result |-> "ok",
                                native |-> add, arg |-> arg]
                    /\ UNCHANGED <<exec_conf, stepVars, tuners>>

\* const_external_field_dipole.set_params(field_x, field_y, field_z, p): the
\* method is declared without self, so the call on an object binds five
\* arguments to four parameters and raises before the body runs
SetParams ==
    \E i \in 1..Len(forces), v \in Fields :
        /\ forces[i].kind = "const_external_field_dipole"
        /\ Raised("set_params", i, v, "TypeError")

\* constant.set_force(fx, fy, fz, group)
SetForce ==
    \E i \in 1..Len(forces), v \in ForceVecs, group \in Groups :
        LET f == forces[i]
            arg == [f |-> v, group |-> group]
        IN
        /\ f.kind = "constant"
        /\ IF check_initialization_raises(f)
           THEN Raised("set_force", i, arg, "RuntimeError")
           ELSE LET calls == set_force_calls(f, v[1], v[2], v[3], group) IN
                /\ forces' = [forces EXCEPT ![i] = set_force_force(f, v[1], v[2], v[3], group)]
                /\ last' = [op |-> "set_force", target |-> i, result |-> "ok",
                            native |-> calls, arg |-> arg]
                /\ UNCHANGED <<exec_conf, cur_id, system, cpp, stepVars, tuners>>

\* One integration step: every active force compute registered in the
\* system updates its particles.  The integrator has moved and turned the
\* particle (b, n); the random draw of each compute is any of Gammas, which
\* covers every generator seeded from (seed, tag, timestep).
Step ==
    /\ is_initialized
    /\ timestep < MaxSteps
    /\ cpp' \in { step_all(cpp, system, b, n, gam) :
                    b \in Dirs, n \in Dirs, gam \in [1..Len(cpp) -> Gammas] }
    /\ timestep' = timestep + 1
    /\ last' = [op |-> "run", target |-> 0, result |-> "ok", native |-> << >>,
                arg |-> 1]
    /\ UNCHANGED <<exec_conf, cur_id, forces, system, tuners>>

HoomdInitAny == hoomd_init({ "cpu", "gpu" })

ConstructActiveEngine ==
    active_init(MaxEngines, FListsGood \cup FListsBad, ActiveGroups, BOOLEAN,
                RotationDiffs, Constraints)

NextActive ==
    \/ HoomdInitAny
    \/ ConstructActiveEngine
    \/ Step

SpecActive == Init /\ [][NextActive]_vars

-----------------------------------------------------------------------------
(* Tuners *)

\* CustomTuner(action, trigger) / _InternalCustomTuner(...): the object as
\* the custom-operation base class leaves it, holding its action
ConstructTuner ==
    \E cls \in { "CustomTuner", "_InternalCustomTuner" }, a \in ActionValues :
        /\ Len(tuners) < MaxTuners
        /\ tuners' = Append(tuners, [cls |-> cls, cpp_list_name |-> "tuners",
                                     cpp_class_name |-> "PythonTuner",
                                     action |-> a, cpp_obj |-> << >>])
        /\ last' = [op |-> "tuner_init", target |-> Len(tuners) + 1,
                    result |-> "ok", native |-> << >>, arg |-> a]
        /\ UNCHANGED <<forceVars, stepVars>>

\* obj.tuner = value
SetTuner ==
    \E i \in 1..Len(tuners), value \in PyValues :
        /\ IF tuner_set_raises(value)
           THEN /\ last' = [op |-> "set_tuner", target |-> i, result |-> "ValueError",
                            native |-> << >>, arg |-> value]
                /\ UNCHANGED tuners
           ELSE /\ tuners' = [tuners EXCEPT ![i] = tuner_set(tuners[i], value)]
                /\ last' = [op |-> "set_tuner", target |-> i, result |-> "ok",
                            native |-> << >>, arg |-> value]
        /\ UNCHANGED <<forceVars, stepVars>>

\* obj.tuner
GetTuner ==
    \E i \in 1..Len(tuners) :
        /\ last' = [op |-> "get_tuner", target |-> i, result |-> "ok",
                    native |-> << >>, arg |-> tuner_get(tuners[i])]
        /\ UNCHANGED <<forceVars, stepVars, tuners>>

\* obj._attach()
AttachTuner ==
    \E i \in 1..Len(tuners) :
        /\ tuners[i].cpp_obj = << >>
        /\ tuners' = [tuners EXCEPT ![i] = tuner_attach(tuners[i])]
        /\ last' = [op |-> "_attach", target |-> i, result |-> "ok",
                    native |-> << Call("PythonTuner", "_hoomd", <<tuners[i].action>>) >>,
                    arg |-> tuners[i].action]
        /\ UNCHANGED <<forceVars, stepVars>>

NextTuner ==
    \/ ConstructTuner
    \/ SetTuner
    \/ GetTuner
    \/ AttachTuner

SpecTuner == Init /\ [][NextTuner]_vars

-----------------------------------------------------------------------------
Next ==
    \/ HoomdInit
    \/ ConstructBase
    \/ ConstructConstant
    \/ ConstructActive
    \/ ConstructDipole
    \/ SetParams
    \/ Disable
    \/ Enable
    \/ Benchmark
    \/ SetForce

Spec == Init /\ [][Next]_vars

-----------------------------------------------------------------------------
(* Properties *)

ControlOps == { "enable", "disable", "benchmark", "set_force" }

\* the step is the call op on force i
IsCall(op, i) == last'.op = op /\ last'.target = i

C1_step ==
    \A i \in 1..Len(forces) :
        LET f == forces[i]
            g == forces'[i]
            name == forces[i].force_name
        IN  f.cpp_force # None =>
            /\ (IsCall("disable", i) /\ last'.arg = FALSE /\ f.enabled)
                  => /\ Registered(system', name) = 0
                     /\ g = [f EXCEPT !.enabled = FALSE, !.log = FALSE]
            /\ (~f.enabled /\ Registered(system, name) = 0 /\ ~IsCall("enable", i))
                  => /\ Registered(system', name) = 0
                     /\ ~g.enabled
            /\ (IsCall("enable", i) /\ ~f.enabled /\ Registered(system, name) = 0)
                  => /\ Registered(system', name) = 1
                     /\ ComputesOf(system', name) = { f.cpp_force }
                     /\ g = [f EXCEPT !.enabled = TRUE, !.log = TRUE]

\* C1: for a concrete, enabled force, disable(log=False) removes the compute
\* registered under force_name; the compute stays absent in every later
\* step that is not enable() of that force; enable() then registers the
\* same cpp_force once under the same force_name and leaves the object with
\* enabled = log = True and every other attribute as it was.
C1_DisableRemovesEnableRestores == [][C1_step]_vars

\* C1: enable() has just re-added the compute of a constant force that
\* disable(log=False) had removed, with a second force in the system
C1_Witness ==
    /\ last.op = "enable" /\ last.result = "ok" /\ Len(last.native) = 1
    /\ Len(forces) = 2
    /\ forces[last.target].kind = "constant"
    /\ forces[last.target].enabled /\ forces[last.target].log
    /\ Registered(system, forces[last.target].force_name) = 1

C2_step ==
    \A i \in 1..Len(forces) :
        LET f == forces[i]
            g == forces'[i]
            name == forces[i].force_name
        IN  f.cpp_force # None =>
            /\ (IsCall("disable", i) /\ last'.arg = TRUE /\ f.enabled)
                  => /\ last'.native = << >>
                     /\ system' = system
                     /\ Registered(system', name) = 1
                     /\ ~g.enabled /\ g.log
            /\ (IsCall("enable", i) /\ ~f.enabled /\ f.log)
                  => /\ last'.native = << >>
                     /\ system' = system
                     /\ Registered(system', name) = 1
                     /\ g.enabled

\* C2: for a concrete, enabled force, disable(log=True) calls no
\* removeCompute and leaves the compute registered, with enabled = False and
\* log = True; the enable() that follows sets enabled = True, calls no
\* addCompute and leaves the compute registered exactly once.
C2_KeepLogging == [][C2_step]_vars

\* C2: enable() has just returned on a force disabled with log=True
C2_Witness ==
    /\ last.op = "enable" /\ last.result = "ok" /\ last.native = << >>
    /\ forces[last.target].enabled
    /\ Registered(system, forces[last.target].force_name) = 1

C3_step ==
    \A i \in 1..Len(forces) :
        (last'.op \in ControlOps /\ last'.target = i /\ forces[i].cpp_force = None)
            => /\ last'.result = "RuntimeError"
               /\ last'.native = << >>
               /\ UNCHANGED <<forces, system, cpp, cur_id>>

\* C3: enable(), disable(), benchmark(n) and set_force(...) on a force whose
\* cpp_force is None end in RuntimeError, make no native call and leave the
\* force objects, the system and the native objects unchanged.
C3_UninitializedUse == [][C3_step]_vars

\* C3: set_force() has just raised on a constant force without a compute
C3_Witness ==
    /\ last.op = "set_force" /\ last.result = "RuntimeError"
    /\ forces[last.target].kind = "constant"
    /\ forces[last.target].cpp_force = None

\* arguments active() must reject
BadActiveArgs(a) ==
    \/ /\ ~a.f_lst.isNone
       /\ \E k \in 1..Len(a.f_lst.elems) :
             ~(a.f_lst.elems[k].type = "tuple" /\ Len(a.f_lst.elems[k].items) = 3)
    \/ a.constraint \notin { "None", "ellipsoid" }
    \/ a.rotation_diff < 0

C4_step ==
    (last'.op = "active" /\ BadActiveArgs(last'.arg))
        => /\ last'.result \in { "RuntimeError", "NativeError" }
           /\ last'.native = << >>
           /\ cpp' = cpp
           /\ system' = system
           /\ \A k \in 1..Len(forces') :
                 k > Len(forces) =>
                    /\ forces'[k].cpp_force = None
                    /\ Registered(system', forces'[k].force_name) = 0

\* C4: active() with an f_lst element that is no 3-tuple, with a constraint
\* that is no ellipsoid constraint, or with a negative rotation_diff raises;
\* no native compute is created and none is registered under the new name.
C4_BadArguments == [][C4_step]_vars

\* C4: active() has just raised on a malformed f_lst, after hoomd.init
C4_Witness ==
    /\ last.op = "active" /\ last.result = "RuntimeError"
    /\ last.arg.f_lst \in FListsBad
    /\ last.arg.constraint = "None" /\ last.arg.rotation_diff = 0
    /\ last.target = Len(forces) /\ last.target > 0
    /\ forces[last.target].cpp_force = None
    /\ is_initialized

C5_step ==
    \A i \in 1..Len(forces) :
        LET f == forces[i]
            g == forces'[i]
            a == last'.arg
        IN  (IsCall("set_force", i) /\ f.cpp_force # None)
            => /\ last'.result = "ok"
               /\ Len(last'.native) = 1
               /\ last'.native[1].fn = (IF a.group # "None" THEN "setGroupForce"
                                        ELSE "setForce")
               /\ last'.native[1].args =
                     (IF a.group # "None"
                      THEN <<f.cpp_force, <<"cpp_group", a.group>>, a.f[1], a.f[2], a.f[3]>>
                      ELSE <<f.cpp_force, a.f[1], a.f[2], a.f[3]>>)
               /\ <<g.attrs.fx, g.attrs.fy, g.attrs.fz>> = a.f
               /\ g.enabled = f.enabled /\ g.log = f.log
               /\ g.force_name = f.force_name /\ g.cpp_force = f.cpp_force
               /\ system' = system

\* C5: set_force(fx, fy, fz, group) on an initialized constant force makes
\* exactly one native call, setGroupForce(group, fx, fy, fz) when a group is
\* given and setForce(fx, fy, fz) otherwise; afterwards the stored fx, fy,
\* fz are the arguments, and enabled, log, force_name, cpp_force and the
\* system are unchanged.
C5_SetForce == [][C5_step]_vars

\* C5: set_force() with a group has just changed the vector of a disabled,
\* unregistered constant force
C5_Witness ==
    /\ last.op = "set_force" /\ last.result = "ok"
    /\ last.arg.group # "None"
    /\ last.arg.f = <<0, 2, -1>>
    /\ forces[last.target].attrs.fz = -1
    /\ ~forces[last.target].enabled /\ ~forces[last.target].log

\* an active force with rotation_diff = 0, no orientation link and no
\* constraint
PlainActive(f) ==
    /\ f.kind = "active"
    /\ f.cpp_force # None
    /\ f.attrs.rotation_diff = 0
    /\ ~f.attrs.orientation_link
    /\ f.attrs.constraint = "None"

\* C6: an active force built with rotation_diff = 0, orientation_link =
\* False and no constraint has, after any number of steps, the active force
\* vector of every particle equal to the vector it was constructed with.
C6_NoDrift ==
    \A i \in 1..Len(forces) :
        PlainActive(forces[i]) =>
            \A k \in DOMAIN cpp[forces[i].cpp_force].f_lst :
                ActiveVec(cpp[forces[i].cpp_force], k) = cpp[forces[i].cpp_force].f_lst[k]

\* C6: seed = 7, f_lst = [(1,0,0)]: the vector is (1,0,0) after the steps
C6_Witness ==
    /\ timestep >= 2
    /\ \E i \in 1..Len(forces) :
          /\ PlainActive(forces[i])
          /\ forces[i].attrs.seed = 7
          /\ cpp[forces[i].cpp_force].f_lst = << <<1, 0, 0>> >>
          /\ ActiveVec(cpp[forces[i].cpp_force], 1) = <<1, 0, 0>>

C7_step ==
    \A i \in 1..Len(forces) :
        forces[i].cpp_force # None =>
            /\ (IsCall("disable", i) /\ ~forces[i].enabled)
                  => /\ last'.result = "ignored"
                     /\ last'.native = << >>
                     /\ UNCHANGED <<forces, system, cpp>>
            /\ (IsCall("enable", i) /\ forces[i].enabled)
                  => /\ last'.result = "ignored"
                     /\ last'.native = << >>
                     /\ UNCHANGED <<forces, system, cpp>>

\* C7: disable(log) on a disabled force and enable() on an enabled force are
\* ignored: they make no native call and change neither the force (its log
\* flag included) nor the system, whatever log is.
C7_RedundantToggles == [][C7_step]_vars

\* C7: disable(log=False) has just been ignored on a force that
\* disable(log=True) had disabled: it is still registered, with log = True
C7_Witness ==
    /\ last.op = "disable" /\ last.result = "ignored" /\ last.arg = FALSE
    /\ ~forces[last.target].enabled /\ forces[last.target].log
    /\ Registered(system, forces[last.target].force_name) = 1

C8_step ==
    \A i \in 1..Len(tuners) :
        /\ (IsCall("set_tuner", i) /\ last'.arg \notin ActionValues)
              => /\ last'.result = "ValueError"
                 /\ tuners' = tuners
        /\ (IsCall("set_tuner", i) /\ last'.arg \in ActionValues)
              => /\ last'.result = "ok"
                 /\ tuners'[i].action = last'.arg
        /\ ~IsCall("set_tuner", i) => tuners'[i].action = tuners[i].action
        /\ IsCall("get_tuner", i) => last'.arg = tuners[i].action

\* C8: assigning .tuner a value that is no hoomd.custom.Action raises
\* ValueError and leaves the tuner unchanged; assigning an Action stores it;
\* nothing else changes the stored action, and reading .tuner returns it:
\* the action read back is the last Action successfully assigned.
C8_TunerSetter == [][C8_step]_vars

\* C8: an assignment has just raised ValueError on an attached
\* _InternalCustomTuner that holds an Action assigned earlier
C8_Witness ==
    /\ last.op = "set_tuner" /\ last.result = "ValueError"
    /\ tuners[last.target].cls = "_InternalCustomTuner"
    /\ tuners[last.target].action = PyValue("MyAction", 2)
    /\ tuners[last.target].cpp_obj # << >>
    /\ tuners[last.target].cpp_obj[1].action = PyValue("Action", 1)

C9_state ==
    \A i \in 1..Len(forces) :
        LET f == forces[i] IN
        f.cpp_force # None =>
            /\ (Registered(system, f.force_name) = 1) <=> (f.enabled \/ f.log)
            /\ Registered(system, f.force_name) <= 1
            /\ ComputesOf(system, f.force_name) \subseteq { f.cpp_force }
            /\ f.enabled => f.log

C9_step ==
    \A k \in 1..Len(last'.native) :
        LET c == last'.native[k] IN
        /\ c.fn = "addCompute" => Registered(system, c.args[2]) = 0
        /\ c.fn = "removeCompute" => Registered(system, c.args[1]) = 1

\* C9: for every constructed concrete force and after any calls, its compute
\* is registered under force_name exactly when enabled or log holds, at most
\* once, and enabled implies log; no call adds a compute under a name that
\* is registered or removes one under a name that is not.
C9_Registration == []C9_state /\ [][C9_step]_vars

\* C9: one force is disabled but kept for logging, the other is removed
C9_Witness ==
    /\ Len(forces) = 2
    /\ forces[1].cpp_force # None /\ forces[2].cpp_force # None
    /\ ~forces[1].enabled /\ forces[1].log
    /\ ~forces[2].enabled /\ ~forces[2].log
    /\ forces[2].kind = "active"
    /\ Registered(system, forces[1].force_name) = 1
    /\ Registered(system, forces[2].force_name) = 0
====
